---- MODULE Spec2Model ----
(***************************************************************************)
(* Model of tmn/masternode.py: the lifecycle reconciliation of a           *)
(* masternode (volumes, networks, containers) against a Docker daemon.     *)
(*                                                                         *)
(* The daemon is the environment: its state is the set of existing         *)
(* volumes and networks and the status of every declared container.        *)
(* Every call to the daemon is one step of the model; any call may raise   *)
(* docker.errors.APIError, in which case the call has no effect on the     *)
(* daemon.  The display calls that surround a daemon call belong to the    *)
(* step of that call.  Every invocation of start(), stop() or status() is  *)
(* a fresh pass: it begins with an empty mapping of container handles.     *)
(* Every command-line invocation is a new process: it loads the module,    *)
(* calls connect() and then at most one of start(), stop() and status().   *)
(* Under Spec the program is the only writer of the daemon state; SpecExt  *)
(* adds another actor that changes a container between a refresh and the   *)
(* action chosen from it.                                                  *)
(***************************************************************************)
EXTENDS Integers, Sequences, FiniteSets, TLC

\* Number of processes (command-line invocations) in one behaviour.
MaxRuns == 2

\* Number of connect() calls in one process.
MaxConnects == 2

\* Number of changes another actor makes on the daemon in one behaviour.
MaxExt == 1

VOLUMES == <<"blockchain_data">>

NETWORKS == <<"masternode">>

CONTAINERS ==
    << [name |-> "metrics",   image |-> "tomochain/infra-telegraf:devnet"],
       [name |-> "tomochain", image |-> "tomochain/infra-tomochain:devnet"] >>

\* The names of the declared containers.
Names == {CONTAINERS[k].name : k \in DOMAIN CONTAINERS}

\* The statuses the daemon reports for a container (comment at l.176-177).
Statuses ==
    {"created", "restarting", "running", "removing", "paused", "exited", "dead"}

\* The value of conts[n] when the daemon has no container named n.
Absent == "absent"

\* The value of hstatus[n] when the pass holds no handle for n.
NoHandle == "nohandle"

Ops == {"start", "stop", "status"}

VARIABLES
    vols,        \* daemon: names of the existing volumes
    nets,        \* daemon: names of the existing networks
    conts,       \* daemon: container name -> status, or Absent
    op,          \* the entry point being executed
    pc,          \* position inside the entry point
    idx,         \* index of the current loop
    containers,  \* the dict name -> handle of this pass: its keys, as inserted
    hstatus,     \* the status attribute cached in each handle
    order,       \* the order in which containers.items() is iterated
    log,         \* daemon calls and display calls of this invocation
    out,         \* keyword arguments of the display.status calls
    runs,        \* number of invocations so far
    prev,        \* summary of the previous invocation
    rt0,         \* daemon state when this invocation began
    client,      \* _client: None, or the handle the k-th connect() built
    connected,   \* the module's connected flag
    pings,       \* the answers the pings of this process have got
    lastping,    \* the answer the last ping of this process has got
    ext          \* number of changes made by another actor on the daemon

rtvars == <<vols, nets, conts>>
histvars == <<runs, prev, rt0>>
procvars == <<client, connected, pings, lastping, ext>>
vars == <<vols, nets, conts, op, pc, idx, containers, hstatus, order, log,
          out, runs, prev, rt0, client, connected, pings, lastping, ext>>

\* A call to the daemon and how it returned: "ok", "notfound" or "apierror".
Call(k, a, r) == [t |-> "call", k |-> k, a |-> a, r |-> r, v |-> ""]

\* A reload of a handle and the status it observed.
Reload(a, v) == [t |-> "call", k |-> "reload", a |-> a, r |-> "ok", v |-> v]

\* A call to the display module.
Disp(k, a) == [t |-> "display", k |-> k, a |-> a, r |-> "", v |-> ""]

Runtime == [vols |-> vols, nets |-> nets, conts |-> conts]

\* Python's range: the elements of a sequence.
Range(s) == {s[k] : k \in DOMAIN s}

\* The resources the calls of a log have created.
Created(l) ==
    {<<l[k].k, l[k].a>> : k \in {j \in DOMAIN l :
        /\ l[j].t = "call" /\ l[j].r = "ok"
        /\ l[j].k \in {"volumes.create", "networks.create",
                       "containers.create"}}}

\* Any order of the keys of a dict.
DictOrderAny(keys) ==
    {s \in [1..Len(keys) -> Range(keys)] : Range(s) = Range(keys)}

\* The orders in which a dict with the given insertion order is iterated:
\* containers.items() yields the keys in insertion order (the language
\* guarantees it from Python 3.7 on).
DictOrder(keys) == {keys}

NoHandles == [n \in Names |-> NoHandle]

\* _client before the first connect().  A client handle is known by the
\* number of the connect() call that built it.
None == 0

\* dockerpy.from_env(): a new handle.
FromEnv(c) == c + 1

\* dockerpy.DockerClient(base_url=url): a new handle.
DockerClient(c, url) == c + 1

\* connect() without url.
NoUrl == ""

\* The url arguments of connect().
Urls == {NoUrl, "tcp://127.0.0.1:2375"}

\* What the daemon may answer to a ping: True, False or an exception.
PingAnswers == {"true", "false", "raise"}

Init ==
    /\ vols \in SUBSET Range(VOLUMES)
    /\ nets \in SUBSET Range(NETWORKS)
    /\ conts \in [Names -> Statuses \cup {Absent}]
    /\ op = "none"
    /\ pc = "main"
    /\ idx = 1
    /\ containers = <<>>
    /\ hstatus = NoHandles
    /\ order = <<>>
    /\ log = <<>>
    /\ out = <<>>
    /\ runs = 1
    /\ prev = [op |-> "none", end |-> "none", rt0 |-> Runtime, created |-> {}]
    /\ rt0 = Runtime
    /\ client = None
    /\ connected = FALSE
    /\ pings = {}
    /\ lastping = "none"
    /\ ext = 0

\* A wrapper that undoes the invocation's creations before it exits.
RaiseRollback(l, call) ==
    /\ log' = l \o <<call, Disp("error_docker_api", "")>>
    /\ pc' = "failed"
    /\ vols' = rt0.vols
    /\ nets' = rt0.nets
    /\ conts' = [n \in Names |->
                    IF rt0.conts[n] = Absent THEN Absent ELSE conts[n]]
    /\ UNCHANGED <<op, idx, containers, hstatus, order, out, runs, prev, rt0, procvars>>

\* The wrapper of apierror: the call raised docker.errors.APIError.
Raise(l, call) ==
    /\ log' = l \o <<call, Disp("error_docker_api", "")>>
    /\ pc' = "failed"
    /\ UNCHANGED <<vols, nets, conts, op, idx, containers, hstatus, order,
                   out, runs, prev, rt0, procvars>>

\* The next command-line invocation: a new process loads the module
\* (l.42-43).  prev keeps the last invocation of an entry point.
NewProcess ==
    /\ pc \in {"main", "done", "failed"}
    /\ runs < MaxRuns
    /\ runs' = runs + 1
    /\ prev' = IF pc = "main" THEN prev
               ELSE [op |-> op, end |-> pc, rt0 |-> rt0,
                     created |-> Created(log)]
    /\ rt0' = Runtime
    /\ op' = "none"
    /\ pc' = "main"
    /\ idx' = 1
    /\ containers' = <<>>
    /\ hstatus' = NoHandles
    /\ order' = <<>>
    /\ log' = <<>>
    /\ out' = <<>>
    /\ client' = None
    /\ connected' = FALSE
    /\ pings' = {}
    /\ lastping' = "none"
    /\ UNCHANGED <<vols, nets, conts, ext>>

\* _ping: what the daemon answers to the ping, True, False or an exception.
Ping(answer) == IF answer = "raise" THEN FALSE ELSE answer = "true"

\* connect() setting connected without looking at the ping.
connectBlind(url, answer) ==
    /\ pc = "main"
    /\ client < MaxConnects
    /\ client' = IF url = NoUrl THEN FromEnv(client)
                 ELSE DockerClient(client, url)
    /\ connected' = TRUE
    /\ pings' = pings \cup {answer}
    /\ lastping' = answer
    /\ UNCHANGED <<vols, nets, conts, op, pc, idx, containers, hstatus, order,
                   log, out, runs, prev, rt0, ext>>

\* connect() with 'connected = _ping()'.
connectAssign(url, answer) ==
    /\ pc = "main"
    /\ client < MaxConnects
    /\ client' = IF url = NoUrl THEN FromEnv(client)
                 ELSE DockerClient(client, url)
    /\ connected' = Ping(answer)
    /\ pings' = pings \cup {answer}
    /\ lastping' = answer
    /\ UNCHANGED <<vols, nets, conts, op, pc, idx, containers, hstatus, order,
                   log, out, runs, prev, rt0, ext>>

\* connect(url): a new client handle, and connected is set when _ping() is
\* true.
connect(url, answer) ==
    /\ pc = "main"
    /\ client < MaxConnects
    /\ client' = IF url = NoUrl THEN FromEnv(client)
                 ELSE DockerClient(client, url)
    /\ connected' = IF Ping(answer) THEN TRUE ELSE connected
    /\ pings' = pings \cup {answer}
    /\ lastping' = answer
    /\ UNCHANGED <<vols, nets, conts, op, pc, idx, containers, hstatus, order,
                   log, out, runs, prev, rt0, ext>>

Connect == \E url \in Urls, answer \in PingAnswers : connect(url, answer)

\* The caller's precondition: an entry point is called only once the
\* liveness probe of connect() has succeeded.
CoreMayRun == connected

\* The entry points with status() provisioning like start().
InvokeProvision(o) ==
    /\ pc = "main"
    /\ CoreMayRun
    /\ op' = o
    /\ IF o \in {"start", "status"}
       THEN /\ log' = <<Disp("subtitle_create_volumes", "")>>
            /\ pc' = "volumes_get"
       ELSE /\ log' = <<>>
            /\ pc' = "get_containers"
    /\ UNCHANGED <<vols, nets, conts, idx, containers, hstatus, order, out,
                   runs, prev, rt0, procvars>>

\* The call of one entry point by the command line.
Invoke(o) ==
    /\ pc = "main"
    /\ CoreMayRun
    /\ op' = o
    /\ IF o = "start"
       THEN /\ log' = <<Disp("subtitle_create_volumes", "")>>
            /\ pc' = "volumes_get"
       ELSE /\ log' = <<>>
            /\ pc' = "get_containers"
    /\ UNCHANGED <<vols, nets, conts, idx, containers, hstatus, order, out,
                   runs, prev, rt0, procvars>>

start == Invoke("start")

stop == Invoke("stop")

status == Invoke("status")

----------------------------------------------------------------------------
\* _create_volumes

VolumesDone(l) ==
    IF idx < Len(VOLUMES)
    THEN /\ log' = l
         /\ idx' = idx + 1
         /\ pc' = "volumes_get"
    ELSE /\ log' = l \o <<Disp("newline", ""),
                          Disp("subtitle_create_networks", "")>>
         /\ idx' = 1
         /\ pc' = "networks_get"

\* _create_volumes without the lookup's found branch: every volume is created.
VolumesGetBlind ==
    /\ pc = "volumes_get"
    /\ LET volume == VOLUMES[idx]
           l == Append(log, Disp("step_create_masternode_volume", volume))
       IN \/ /\ log' = Append(l, Call("volumes.get", volume, "notfound"))
             /\ pc' = "volumes_create"
             /\ UNCHANGED <<vols, nets, conts, op, idx, containers, hstatus,
                            order, out, runs, prev, rt0, procvars>>
          \/ Raise(l, Call("volumes.get", volume, "apierror"))

VolumesGet ==
    /\ pc = "volumes_get"
    /\ LET volume == VOLUMES[idx]
           l == Append(log, Disp("step_create_masternode_volume", volume))
       IN \/ /\ volume \in vols
             /\ VolumesDone(l \o <<Call("volumes.get", volume, "ok"),
                                   Disp("step_close_exists", "")>>)
             /\ UNCHANGED <<vols, nets, conts, op, containers, hstatus,
                            order, out, runs, prev, rt0, procvars>>
          \/ /\ volume \notin vols
             /\ log' = Append(l, Call("volumes.get", volume, "notfound"))
             /\ pc' = "volumes_create"
             /\ UNCHANGED <<vols, nets, conts, op, idx, containers, hstatus,
                            order, out, runs, prev, rt0, procvars>>
          \/ Raise(l, Call("volumes.get", volume, "apierror"))

VolumesCreate ==
    /\ pc = "volumes_create"
    /\ LET volume == VOLUMES[idx]
       IN \/ /\ vols' = vols \cup {volume}
             /\ VolumesDone(log \o <<Call("volumes.create", volume, "ok"),
                                     Disp("step_close_created", "")>>)
             /\ UNCHANGED <<nets, conts, op, containers, hstatus, order,
                            out, runs, prev, rt0, procvars>>
          \/ Raise(log, Call("volumes.create", volume, "apierror"))

----------------------------------------------------------------------------
\* _create_networks

NetworksDone(l) ==
    IF idx < Len(NETWORKS)
    THEN /\ log' = l
         /\ idx' = idx + 1
         /\ pc' = "networks_get"
    ELSE /\ log' = l \o <<Disp("newline", ""),
                          Disp("subtitle_create_containers", "")>>
         /\ idx' = 1
         /\ pc' = "containers_get"

\* _create_networks without the lookup's found branch: every network is
\* created.
NetworksGetBlind ==
    /\ pc = "networks_get"
    /\ LET network == NETWORKS[idx]
           l == Append(log, Disp("step_create_masternode_network", network))
       IN \/ /\ log' = Append(l, Call("networks.get", network, "notfound"))
             /\ pc' = "networks_create"
             /\ UNCHANGED <<vols, nets, conts, op, idx, containers, hstatus,
                            order, out, runs, prev, rt0, procvars>>
          \/ Raise(l, Call("networks.get", network, "apierror"))

NetworksGet ==
    /\ pc = "networks_get"
    /\ LET network == NETWORKS[idx]
           l == Append(log, Disp("step_create_masternode_network", network))
       IN \/ /\ network \in nets
             /\ NetworksDone(l \o <<Call("networks.get", network, "ok"),
                                    Disp("step_close_exists", "")>>)
             /\ UNCHANGED <<vols, nets, conts, op, containers, hstatus,
                            order, out, runs, prev, rt0, procvars>>
          \/ /\ network \notin nets
             /\ log' = Append(l, Call("networks.get", network, "notfound"))
             /\ pc' = "networks_create"
             /\ UNCHANGED <<vols, nets, conts, op, idx, containers, hstatus,
                            order, out, runs, prev, rt0, procvars>>
          \/ Raise(l, Call("networks.get", network, "apierror"))

\* _create_networks closing the step of a created network with 'exists'.
NetworksCreateMisreport ==
    /\ pc = "networks_create"
    /\ LET network == NETWORKS[idx]
       IN \/ /\ nets' = nets \cup {network}
             /\ NetworksDone(log \o <<Call("networks.create", network, "ok"),
                                      Disp("step_close_exists", "")>>)
             /\ UNCHANGED <<vols, conts, op, containers, hstatus, order,
                            out, runs, prev, rt0, procvars>>
          \/ Raise(log, Call("networks.create", network, "apierror"))

NetworksCreate ==
    /\ pc = "networks_create"
    /\ LET network == NETWORKS[idx]
       IN \/ /\ nets' = nets \cup {network}
             /\ NetworksDone(log \o <<Call("networks.create", network, "ok"),
                                      Disp("step_close_created", "")>>)
             /\ UNCHANGED <<vols, conts, op, containers, hstatus, order,
                            out, runs, prev, rt0, procvars>>
          \/ Raise(log, Call("networks.create", network, "apierror"))

----------------------------------------------------------------------------
\* The daemon's answer to start, unpause and stop on a container of status st:
\* the new status, or "error" when the daemon rejects the request.
Effect(act, st) ==
    CASE act = "start" ->
            IF st \in {"created", "exited", "dead"} THEN "running"
            ELSE IF st \in {"running", "restarting"} THEN st
            ELSE "error"
      [] act = "unpause" ->
            IF st = "paused" THEN "running" ELSE "error"
      [] act = "stop" ->
            IF st \in {"restarting", "running", "paused"} THEN "exited"
            ELSE IF st \in {"created", "exited", "dead"} THEN st
            ELSE "error"

\* containers[container.name] = container
Put(cs, n) == IF n \in Range(cs) THEN cs ELSE Append(cs, n)

----------------------------------------------------------------------------
\* _create_containers

ContainersDone(l, cs) ==
    IF idx < Len(CONTAINERS)
    THEN /\ log' = l
         /\ idx' = idx + 1
         /\ pc' = "containers_get"
         /\ order' = order
    ELSE /\ log' = Append(l, Disp("newline", ""))
         /\ idx' = 1
         /\ order' \in DictOrder(cs)
         /\ pc' = IF cs = <<>> THEN "done" ELSE "start_reload"

\* _create_containers without l.153 on the path where the container is
\* found: the handle is not put in the mapping.
ContainersGetDrop ==
    /\ pc = "containers_get"
    /\ LET value == CONTAINERS[idx]
           l == Append(log,
                       Disp("step_create_masternode_container", value.name))
       IN \/ /\ conts[value.name] # Absent
             /\ containers' = containers
             /\ hstatus' = [hstatus EXCEPT ![value.name] = conts[value.name]]
             /\ ContainersDone(
                    l \o <<Call("containers.get", value.name, "ok"),
                           Disp("step_close_exists", "")>>, containers')
             /\ UNCHANGED <<vols, nets, conts, op, out, runs, prev, rt0, procvars>>
          \/ /\ conts[value.name] = Absent
             /\ log' = Append(l, Call("containers.get", value.name,
                                      "notfound"))
             /\ pc' = "images_pull"
             /\ UNCHANGED <<vols, nets, conts, op, idx, containers, hstatus,
                            order, out, runs, prev, rt0, procvars>>
          \/ Raise(l, Call("containers.get", value.name, "apierror"))

ContainersGet ==
    /\ pc = "containers_get"
    /\ LET value == CONTAINERS[idx]
           l == Append(log,
                       Disp("step_create_masternode_container", value.name))
       IN \/ /\ conts[value.name] # Absent
             /\ containers' = Put(containers, value.name)
             /\ hstatus' = [hstatus EXCEPT ![value.name] = conts[value.name]]
             /\ ContainersDone(
                    l \o <<Call("containers.get", value.name, "ok"),
                           Disp("step_close_exists", "")>>, containers')
             /\ UNCHANGED <<vols, nets, conts, op, out, runs, prev, rt0, procvars>>
          \/ /\ conts[value.name] = Absent
             /\ log' = Append(l, Call("containers.get", value.name,
                                      "notfound"))
             /\ pc' = "images_pull"
             /\ UNCHANGED <<vols, nets, conts, op, idx, containers, hstatus,
                            order, out, runs, prev, rt0, procvars>>
          \/ Raise(l, Call("containers.get", value.name, "apierror"))

\* The pull with its APIError swallowed: the creation goes on.
ImagesPullSwallow ==
    /\ pc = "images_pull"
    /\ LET value == CONTAINERS[idx]
       IN /\ \E r \in {"ok", "apierror"} :
               log' = Append(log, Call("images.pull", value.image, r))
          /\ pc' = "containers_create"
          /\ UNCHANGED <<vols, nets, conts, op, idx, containers, hstatus,
                         order, out, runs, prev, rt0, procvars>>

ImagesPull ==
    /\ pc = "images_pull"
    /\ LET value == CONTAINERS[idx]
       IN \/ /\ log' = Append(log, Call("images.pull", value.image, "ok"))
             /\ pc' = "containers_create"
             /\ UNCHANGED <<vols, nets, conts, op, idx, containers, hstatus,
                            order, out, runs, prev, rt0, procvars>>
          \/ Raise(log, Call("images.pull", value.image, "apierror"))

ContainersCreate ==
    /\ pc = "containers_create"
    /\ LET value == CONTAINERS[idx]
       IN \/ /\ conts[value.name] = Absent
             /\ conts' = [conts EXCEPT ![value.name] = "created"]
             /\ containers' = Put(containers, value.name)
             /\ hstatus' = [hstatus EXCEPT ![value.name] = "created"]
             /\ ContainersDone(
                    log \o <<Call("containers.create", value.name, "ok"),
                             Disp("step_close_created", "")>>, containers')
             /\ UNCHANGED <<vols, nets, op, out, runs, prev, rt0, procvars>>
          \/ Raise(log, Call("containers.create", value.name, "apierror"))

----------------------------------------------------------------------------
\* _get_containers

GetContainersDone(cs) ==
    IF idx < Len(CONTAINERS)
    THEN /\ idx' = idx + 1
         /\ pc' = "get_containers"
         /\ order' = order
    ELSE /\ idx' = 1
         /\ IF op = "stop"
            THEN /\ order' \in DictOrder(cs)
                 /\ pc' = IF cs = <<>> THEN "done" ELSE "stop_reload"
            ELSE /\ order' = order
                 /\ pc' = "status_containers"

\* _get_containers without its except clause: NotFound is an APIError and
\* reaches the wrapper.
GetContainersStrict ==
    /\ pc = "get_containers"
    /\ LET value == CONTAINERS[idx]
       IN \/ /\ conts[value.name] # Absent
             /\ containers' = Put(containers, value.name)
             /\ hstatus' = [hstatus EXCEPT ![value.name] = conts[value.name]]
             /\ log' = Append(log, Call("containers.get", value.name, "ok"))
             /\ GetContainersDone(containers')
             /\ UNCHANGED <<vols, nets, conts, op, out, runs, prev, rt0, procvars>>
          \/ /\ conts[value.name] = Absent
             /\ Raise(log, Call("containers.get", value.name, "notfound"))
          \/ Raise(log, Call("containers.get", value.name, "apierror"))

GetContainers ==
    /\ pc = "get_containers"
    /\ LET value == CONTAINERS[idx]
       IN \/ /\ conts[value.name] # Absent
             /\ containers' = Put(containers, value.name)
             /\ hstatus' = [hstatus EXCEPT ![value.name] = conts[value.name]]
             /\ log' = Append(log, Call("containers.get", value.name, "ok"))
             /\ GetContainersDone(containers')
             /\ UNCHANGED <<vols, nets, conts, op, out, runs, prev, rt0, procvars>>
          \/ /\ conts[value.name] = Absent
             /\ log' = Append(log, Call("containers.get", value.name,
                                        "notfound"))
             /\ GetContainersDone(containers)
             /\ UNCHANGED <<vols, nets, conts, op, containers, hstatus, out,
                            runs, prev, rt0, procvars>>
          \/ Raise(log, Call("containers.get", value.name, "apierror"))

----------------------------------------------------------------------------
\* _start_containers

\* The start table without 'created' in its last list.
StartTableNoCreated(st) ==
    IF st \in {"restarting", "running"} THEN "none"
    ELSE IF st \in {"paused"} THEN "unpause"
    ELSE IF st \in {"exited", "dead"} THEN "start"
    ELSE "none"

\* The table as the docstring words it: start whatever is not restarting or
\* running (a paused container is started, a removing one too).
StartTableBlind(st) ==
    IF st \in {"restarting", "running"} THEN "none" ELSE "start"

\* The branch taken at l.179-184 for a refreshed status.
StartTable(st) ==
    IF st \in {"restarting", "running"} THEN "none"
    ELSE IF st \in {"paused"} THEN "unpause"
    ELSE IF st \in {"created", "exited", "dead"} THEN "start"
    ELSE "none"

\* The end of one iteration of a loop over containers.items().
ItemsDone(again) ==
    IF idx < Len(order)
    THEN /\ idx' = idx + 1
         /\ pc' = again
    ELSE /\ idx' = 1
         /\ pc' = "done"

StartReload ==
    /\ pc = "start_reload"
    /\ LET name == order[idx]
           l == Append(log, Disp("step_start_masternode_container", name))
       IN \/ /\ conts[name] # Absent
             /\ hstatus' = [hstatus EXCEPT ![name] = conts[name]]
             /\ log' = Append(l, Reload(name, conts[name]))
             /\ pc' = "start_action"
             /\ UNCHANGED <<vols, nets, conts, op, idx, containers, order,
                            out, runs, prev, rt0, procvars>>
          \/ Raise(l, Call("reload", name, "apierror"))

\* _start_containers swallowing the APIError of a rejected action: the
\* loop goes on to the second reload.
StartActionSwallow ==
    /\ pc = "start_action"
    /\ LET name == order[idx]
           act == StartTable(hstatus[name])
       IN \/ /\ act = "none"
             /\ pc' = "start_reload2"
             /\ UNCHANGED <<vols, nets, conts, op, idx, containers, hstatus,
                            order, log, out, runs, prev, rt0, procvars>>
          \/ /\ act # "none"
             /\ conts[name] # Absent
             /\ Effect(act, conts[name]) # "error"
             /\ conts' = [conts EXCEPT ![name] = Effect(act, conts[name])]
             /\ log' = Append(log, Call(act, name, "ok"))
             /\ pc' = "start_reload2"
             /\ UNCHANGED <<vols, nets, op, idx, containers, hstatus, order,
                            out, runs, prev, rt0, procvars>>
          \/ /\ act # "none"
             /\ log' = Append(log, Call(act, name, "apierror"))
             /\ pc' = "start_reload2"
             /\ UNCHANGED <<vols, nets, conts, op, idx, containers, hstatus,
                            order, out, runs, prev, rt0, procvars>>

StartAction ==
    /\ pc = "start_action"
    /\ LET name == order[idx]
           act == StartTable(hstatus[name])
       IN \/ /\ act = "none"
             /\ pc' = "start_reload2"
             /\ UNCHANGED <<vols, nets, conts, op, idx, containers, hstatus,
                            order, log, out, runs, prev, rt0, procvars>>
          \/ /\ act # "none"
             /\ conts[name] # Absent
             /\ Effect(act, conts[name]) # "error"
             /\ conts' = [conts EXCEPT ![name] = Effect(act, conts[name])]
             /\ log' = Append(log, Call(act, name, "ok"))
             /\ pc' = "start_reload2"
             /\ UNCHANGED <<vols, nets, op, idx, containers, hstatus, order,
                            out, runs, prev, rt0, procvars>>
          \/ /\ act # "none"
             /\ Raise(log, Call(act, name, "apierror"))

\* _start_containers notifying the status it had before the second reload.
StartReload2Stale ==
    /\ pc = "start_reload2"
    /\ LET name == order[idx]
       IN \/ /\ conts[name] # Absent
             /\ hstatus' = [hstatus EXCEPT ![name] = conts[name]]
             /\ log' = log \o <<Reload(name, conts[name]),
                                 Disp("step_close_status", hstatus[name])>>
             /\ ItemsDone("start_reload")
             /\ UNCHANGED <<vols, nets, conts, op, containers, order, out,
                            runs, prev, rt0, procvars>>
          \/ Raise(log, Call("reload", name, "apierror"))

StartReload2 ==
    /\ pc = "start_reload2"
    /\ LET name == order[idx]
       IN \/ /\ conts[name] # Absent
             /\ hstatus' = [hstatus EXCEPT ![name] = conts[name]]
             /\ log' = log \o <<Reload(name, conts[name]),
                                 Disp("step_close_status", conts[name])>>
             /\ ItemsDone("start_reload")
             /\ UNCHANGED <<vols, nets, conts, op, containers, order, out,
                            runs, prev, rt0, procvars>>
          \/ Raise(log, Call("reload", name, "apierror"))

----------------------------------------------------------------------------
\* _stop_containers

\* The stop table that stops running containers only.
StopTableRunningOnly(st) ==
    IF st \in {"running"} THEN "stop" ELSE "none"

\* The stop table without 'paused' in its first list.
StopTableNoPaused(st) ==
    IF st \in {"restarting", "running"} THEN "stop" ELSE "none"

\* The stop table that stops whatever is not created, exited or dead (a
\* removing container too).
StopTableElse(st) ==
    IF st \in {"created", "exited", "dead"} THEN "none" ELSE "stop"

\* The branch taken at l.202-205 for a refreshed status.
StopTable(st) ==
    IF st \in {"restarting", "running", "paused"} THEN "stop"
    ELSE IF st \in {"created", "exited", "dead"} THEN "none"
    ELSE "none"

StopReload ==
    /\ pc = "stop_reload"
    /\ LET name == order[idx]
           l == Append(log, Disp("step_stop_masternode_container", name))
       IN \/ /\ conts[name] # Absent
             /\ hstatus' = [hstatus EXCEPT ![name] = conts[name]]
             /\ log' = Append(l, Reload(name, conts[name]))
             /\ pc' = "stop_action"
             /\ UNCHANGED <<vols, nets, conts, op, idx, containers, order,
                            out, runs, prev, rt0, procvars>>
          \/ Raise(l, Call("reload", name, "apierror"))

StopAction ==
    /\ pc = "stop_action"
    /\ LET name == order[idx]
           act == StopTable(hstatus[name])
       IN \/ /\ act = "none"
             /\ pc' = "stop_reload2"
             /\ UNCHANGED <<vols, nets, conts, op, idx, containers, hstatus,
                            order, log, out, runs, prev, rt0, procvars>>
          \/ /\ act # "none"
             /\ conts[name] # Absent
             /\ Effect(act, conts[name]) # "error"
             /\ conts' = [conts EXCEPT ![name] = Effect(act, conts[name])]
             /\ log' = Append(log, Call(act, name, "ok"))
             /\ pc' = "stop_reload2"
             /\ UNCHANGED <<vols, nets, op, idx, containers, hstatus, order,
                            out, runs, prev, rt0, procvars>>
          \/ /\ act # "none"
             /\ Raise(log, Call(act, name, "apierror"))

StopReload2 ==
    /\ pc = "stop_reload2"
    /\ LET name == order[idx]
       IN \/ /\ conts[name] # Absent
             /\ hstatus' = [hstatus EXCEPT ![name] = conts[name]]
             /\ log' = log \o <<Reload(name, conts[name]),
                                 Disp("step_close_status", conts[name])>>
             /\ ItemsDone("stop_reload")
             /\ UNCHANGED <<vols, nets, conts, op, containers, order, out,
                            runs, prev, rt0, procvars>>
          \/ Raise(log, Call("reload", name, "apierror"))

----------------------------------------------------------------------------
\* _status_containers

\* The short_id attribute of the handle of the container of that name.
ShortId(name) == <<"short_id", name>>

\* The keyword arguments with 'restarting' coloured green as well.
StatusKwargsLoose(name, st) ==
    IF st \in {"running", "restarting"}
    THEN [name |-> name, status_color |-> "green", status |-> st,
          id |-> ShortId(name)]
    ELSE [name |-> name, status |-> st, id |-> ShortId(name)]

\* The keyword arguments built at l.219-226 for a handle of status st.
StatusKwargs(name, st) ==
    IF st \in {"running"}
    THEN [name |-> name, status_color |-> "green", status |-> st,
          id |-> ShortId(name)]
    ELSE [name |-> name, status |-> st, id |-> ShortId(name)]

StatusDone ==
    IF idx < Len(CONTAINERS)
    THEN /\ idx' = idx + 1
         /\ pc' = "status_containers"
    ELSE /\ idx' = 1
         /\ pc' = "done"

\* _status_containers looping over the handles it was given: a declared name
\* without a handle gets no record.
StatusContainersFound ==
    /\ pc = "status_containers"
    /\ LET names == [k \in DOMAIN CONTAINERS |-> CONTAINERS[k].name]
           name == names[idx]
       IN \/ /\ name \in Range(containers)
             /\ conts[name] # Absent
             /\ hstatus' = [hstatus EXCEPT ![name] = conts[name]]
             /\ out' = Append(out, StatusKwargs(name, hstatus'[name]))
             /\ log' = log \o <<Reload(name, conts[name]),
                                 Disp("status", name)>>
             /\ StatusDone
             /\ UNCHANGED <<vols, nets, conts, op, containers, order, runs,
                            prev, rt0, procvars>>
          \/ /\ name \in Range(containers)
             /\ Raise(log, Call("reload", name, "apierror"))
          \/ /\ name \notin Range(containers)
             /\ StatusDone
             /\ UNCHANGED <<vols, nets, conts, op, containers, hstatus,
                            order, log, out, runs, prev, rt0, procvars>>

StatusContainers ==
    /\ pc = "status_containers"
    /\ LET names == [k \in DOMAIN CONTAINERS |-> CONTAINERS[k].name]
           name == names[idx]
       IN \/ /\ name \in Range(containers)
             /\ conts[name] # Absent
             /\ hstatus' = [hstatus EXCEPT ![name] = conts[name]]
             /\ out' = Append(out, StatusKwargs(name, hstatus'[name]))
             /\ log' = log \o <<Reload(name, conts[name]),
                                 Disp("status", name)>>
             /\ StatusDone
             /\ UNCHANGED <<vols, nets, conts, op, containers, order, runs,
                            prev, rt0, procvars>>
          \/ /\ name \in Range(containers)
             /\ Raise(log, Call("reload", name, "apierror"))
          \/ /\ name \notin Range(containers)
             /\ out' = Append(out, [name |-> name])
             /\ log' = Append(log, Disp("status", name))
             /\ StatusDone
             /\ UNCHANGED <<vols, nets, conts, op, containers, hstatus,
                            order, runs, prev, rt0, procvars>>

----------------------------------------------------------------------------
Next ==
    \/ NewProcess
    \/ Connect
    \/ start
    \/ stop
    \/ status
    \/ VolumesGet
    \/ VolumesCreate
    \/ NetworksGet
    \/ NetworksCreate
    \/ ContainersGet
    \/ ImagesPull
    \/ ContainersCreate
    \/ GetContainers
    \/ StartReload
    \/ StartAction
    \/ StartReload2
    \/ StopReload
    \/ StopAction
    \/ StopReload2
    \/ StatusContainers

Spec == Init /\ [][Next]_vars

\* Another actor changes, or removes, the container the pass is about to act
\* on, between the refresh (l.175, l.198) and the action chosen from it.
External ==
    /\ pc \in {"start_action", "stop_action"}
    /\ ext < MaxExt
    /\ \E s \in (Statuses \cup {Absent}) \ {conts[order[idx]]} :
          conts' = [conts EXCEPT ![order[idx]] = s]
    /\ ext' = ext + 1
    /\ UNCHANGED <<vols, nets, op, pc, idx, containers, hstatus, order, log,
                   out, runs, prev, rt0, client, connected, pings, lastping>>

NextExt ==
    \/ Next
    \/ External

\* The hosts the runs with another actor begin on: no declared volume or
\* network yet, and each container absent, paused or exited (the program
\* and the other actor bring a container to the other statuses).
ExtStatuses == {Absent, "paused", "exited"}

InitExt ==
    /\ Init
    /\ vols = {}
    /\ nets = {}
    /\ \A n \in Names : conts[n] \in ExtStatuses

SpecExt == InitExt /\ [][NextExt]_vars

TypeOK ==
    /\ pc \in {"main", "done", "failed", "volumes_get", "volumes_create",
               "networks_get", "networks_create", "containers_get",
               "images_pull", "containers_create", "get_containers",
               "start_reload", "start_action", "start_reload2",
               "stop_reload", "stop_action", "stop_reload2",
               "status_containers"}
    /\ op \in Ops \cup {"none"}
    /\ conts \in [Names -> Statuses \cup {Absent}]
    /\ runs \in 1..MaxRuns
    /\ connected \in BOOLEAN
    /\ client \in 0..MaxConnects
    /\ pings \subseteq PingAnswers
    /\ lastping \in PingAnswers \cup {"none"}
    /\ ext \in 0..MaxExt

----------------------------------------------------------------------------
\* Reading the log of an invocation.

IsPrefix(s, t) == Len(s) <= Len(t) /\ SubSeq(t, 1, Len(s)) = s

\* The first position after j of an event whose kind is in stops.
NextAt(l, j, stops) ==
    LET K == {k \in (j + 1)..Len(l) : l[k].k \in stops}
    IN IF K = {} THEN Len(l) + 1 ELSE CHOOSE k \in K : \A m \in K : k <= m

\* The events after position j, up to the next event whose kind is in stops.
Segment(l, j, stops) == SubSeq(l, j + 1, NextAt(l, j, stops) - 1)

Closed(l, j, stops) == NextAt(l, j, stops) <= Len(l)

IsCall(e) == e.t = "call"

\* The daemon calls of a sequence of events: <<kind, argument>>, in order.
Issued(s) ==
    LET c == SelectSeq(s, IsCall) IN [k \in DOMAIN c |-> <<c[k].k, c[k].a>>]

\* The six statuses the transition tables handle.
Handled == {"created", "restarting", "running", "paused", "exited", "dead"}

PowerActions == {"start", "unpause", "stop"}

\* Position j holds the refresh that opens the iteration of a container.
IsFirstReload(l, j, step) ==
    /\ j > 1
    /\ l[j].k = "reload"
    /\ l[j].r = "ok"
    /\ l[j - 1].t = "display"
    /\ l[j - 1].k = step
    /\ l[j - 1].a = l[j].a

\* What the iteration opened at j has issued between its two refreshes is
\* exactly exp, and nothing is issued after its second refresh.
IterationIssues(l, j, exp, atAction) ==
    LET acts == Issued(Segment(l, j, {"reload"}))
        k == NextAt(l, j, {"reload"})
    IN IF Closed(l, j, {"reload"})
       THEN /\ acts = exp
            /\ Issued(Segment(l, k, {"reload"})) = <<>>
       ELSE IF pc = atAction THEN acts = <<>> ELSE acts = exp

\* Every start, unpause or stop of the log directly follows the opening
\* refresh of an iteration on the same container.
ActionsFollowRefresh(l, step) ==
    \A j \in DOMAIN l :
        (IsCall(l[j]) /\ l[j].k \in PowerActions) =>
            /\ j > 1
            /\ IsFirstReload(l, j - 1, step)
            /\ l[j - 1].a = l[j].a

\* The start table of the specification.
StartActionFor(n, v) ==
    IF v \in {"running", "restarting"} THEN <<>>
    ELSE IF v = "paused" THEN << <<"unpause", n>> >>
    ELSE << <<"start", n>> >>

\* The stop table of the specification.
StopActionFor(n, v) ==
    IF v \in {"restarting", "running", "paused"} THEN << <<"stop", n>> >>
    ELSE <<>>

\* C1: in start(), for a container whose refreshed status is one of the six
\* handled statuses, what is issued between the two refreshes is fixed by
\* that status: nothing for running and restarting, one unpause for paused,
\* one start for created, exited and dead; no other start, unpause or stop is
\* issued on it, and no stop, create or pull in the power-state phase.
C1_StartTable ==
    op = "start" =>
        /\ ActionsFollowRefresh(log, "step_start_masternode_container")
        /\ \A j \in DOMAIN log :
              (/\ IsFirstReload(log, j, "step_start_masternode_container")
               /\ log[j].v \in Handled) =>
                  IterationIssues(log, j, StartActionFor(log[j].a, log[j].v),
                                  "start_action")

\* A start() that has completed after one start and one unpause.
C1_Witness ==
    /\ op = "start"
    /\ pc = "done"
    /\ \E j \in DOMAIN log : log[j].k = "start" /\ log[j].r = "ok"
    /\ \E j \in DOMAIN log : log[j].k = "unpause" /\ log[j].r = "ok"

\* C2: in stop(), for a container whose refreshed status is one of the six
\* handled statuses, what is issued between the two refreshes is fixed by
\* that status: one stop for restarting, running and paused, nothing for
\* created, exited and dead; no other call is issued on it.
C2_StopTable ==
    op = "stop" =>
        /\ ActionsFollowRefresh(log, "step_stop_masternode_container")
        /\ \A j \in DOMAIN log :
              (/\ IsFirstReload(log, j, "step_stop_masternode_container")
               /\ log[j].v \in Handled) =>
                  IterationIssues(log, j, StopActionFor(log[j].a, log[j].v),
                                  "stop_action")
        /\ \A j \in DOMAIN log :
              IsCall(log[j]) =>
                  log[j].k \in {"containers.get", "reload", "stop"}

\* A stop() that has completed after stopping one container and leaving an
\* exited one alone.
C2_Witness ==
    /\ op = "stop"
    /\ pc = "done"
    /\ \E j \in DOMAIN log : log[j].k = "stop" /\ log[j].r = "ok"
    /\ \E j \in DOMAIN log :
          /\ IsFirstReload(log, j, "step_stop_masternode_container")
          /\ log[j].v = "exited"

\* The image a declared container is created from.
ImageOf(n) ==
    CONTAINERS[CHOOSE k \in DOMAIN CONTAINERS : CONTAINERS[k].name = n].image

\* C3: a container create is issued only directly after the pull of that
\* container's image has returned, itself directly after the lookup of the
\* container signalled not-found; a not-found lookup of start() is followed
\* by the pull; after a failed pull no create is issued.
C3_PullBeforeCreate ==
    /\ \A j \in DOMAIN log :
          (IsCall(log[j]) /\ log[j].k = "containers.create") =>
              /\ j > 2
              /\ log[j - 1] = Call("images.pull", ImageOf(log[j].a), "ok")
              /\ log[j - 2] = Call("containers.get", log[j].a, "notfound")
    /\ \A j \in DOMAIN log :
          (op = "start" /\ log[j].k = "containers.get"
                        /\ log[j].r = "notfound") =>
              IF j = Len(log) THEN pc = "images_pull"
              ELSE /\ IsCall(log[j + 1])
                   /\ log[j + 1].k = "images.pull"
                   /\ log[j + 1].a = ImageOf(log[j].a)
    /\ \A j \in DOMAIN log :
          (log[j].k = "images.pull" /\ log[j].r = "apierror") =>
              /\ pc = "failed"
              /\ \A k \in (j + 1)..Len(log) : ~IsCall(log[k])

\* A start() that has completed after creating a container.
C3_Witness ==
    /\ op = "start"
    /\ pc = "done"
    /\ \E j \in DOMAIN log :
          log[j].k = "containers.create" /\ log[j].r = "ok"

CreateKinds ==
    {"volumes.create", "networks.create", "images.pull", "containers.create"}

\* The number of display calls of a kind in a log.
Count(l, kind) ==
    Cardinality({j \in DOMAIN l : l[j].t = "display" /\ l[j].k = kind})

\* C4: a start() that follows a start() which completed issues no volume
\* create, network create, image pull or container create and no start or
\* unpause, leaves the daemon state as the first run left it, and closes
\* every resource step with 'exists'.
C4_StartIdempotent ==
    (op = "start" /\ prev.op = "start" /\ prev.end = "done") =>
        /\ \A j \in DOMAIN log :
              IsCall(log[j]) => log[j].k \notin CreateKinds \cup PowerActions
        /\ Runtime = rt0
        /\ pc # "failed" => Count(log, "error_docker_api") = 0
        /\ pc = "done" =>
              /\ Count(log, "step_close_exists")
                    = Len(VOLUMES) + Len(NETWORKS) + Len(CONTAINERS)
              /\ Count(log, "step_close_created") = 0
              /\ Count(log, "step_close_status") = Len(CONTAINERS)

\* Two completed start() in a row, the first of which created a volume, a
\* network and a container and started a container.
C4_Witness ==
    /\ op = "start"
    /\ pc = "done"
    /\ prev.op = "start"
    /\ prev.end = "done"
    /\ \E n \in Names : <<"containers.create", n>> \in prev.created
    /\ <<"volumes.create", VOLUMES[1]>> \in prev.created
    /\ <<"networks.create", NETWORKS[1]>> \in prev.created
    /\ \E n \in Names : prev.rt0.conts[n] = "exited"

\* The events of one provisioning step: found, or not found and created.
StepEvents(getKind, createKind, name, exists) ==
    IF exists
    THEN <<Call(getKind, name, "ok"), Disp("step_close_exists", "")>>
    ELSE <<Call(getKind, name, "notfound"), Call(createKind, name, "ok"),
           Disp("step_close_created", "")>>

\* seg is exp, or a beginning of exp, or a beginning of exp ended by the
\* failure of its next call.
Conforms(seg, exp) ==
    \/ IsPrefix(seg, exp)
    \/ \E m \in DOMAIN exp :
          /\ IsCall(exp[m])
          /\ seg = SubSeq(exp, 1, m - 1)
                    \o <<[exp[m] EXCEPT !.r = "apierror"],
                         Disp("error_docker_api", "")>>

\* Every step that stepKind opens in the log runs as StepEvents says.
Provisioned(stepKind, getKind, createKind, existing) ==
    \A j \in DOMAIN log :
        (log[j].t = "display" /\ log[j].k = stepKind) =>
            LET name == log[j].a
                stops == {stepKind, "newline"}
                seg == Segment(log, j, stops)
                exp == StepEvents(getKind, createKind, name, name \in existing)
                creates == {k \in DOMAIN log :
                              log[k].k = createKind /\ log[k].a = name}
            IN /\ Conforms(seg, exp)
               /\ Closed(log, j, stops) => seg = exp
               /\ Cardinality(creates) <= (IF name \in existing THEN 0 ELSE 1)
               /\ (seg = exp /\ name \notin existing) =>
                      Cardinality(creates) = 1

\* C5: a declared volume or network that exists when its step begins gets
\* no create call and one step result, 'exists'; one that does not exist
\* gets exactly one create call and one step result, 'created'.
C5_CreateIfMissing ==
    op = "start" =>
        /\ Provisioned("step_create_masternode_volume", "volumes.get",
                       "volumes.create", rt0.vols)
        /\ Provisioned("step_create_masternode_network", "networks.get",
                       "networks.create", rt0.nets)

\* A start() that has found its volume and created its network.
C5_Witness ==
    /\ op = "start"
    /\ pc = "done"
    /\ \E j \in DOMAIN log : log[j] = Call("volumes.get", VOLUMES[1], "ok")
    /\ \E j \in DOMAIN log :
          log[j] = Call("networks.create", NETWORKS[1], "ok")

\* The declared container names, in declaration order.
DeclaredNames == [k \in DOMAIN CONTAINERS |-> CONTAINERS[k].name]

\* C6: the records status() has emitted are the records of the first
\* declared names, one each, in declaration order; a status() that has
\* completed has emitted one record for every declared name, whichever of
\* the containers exist.
C6_StatusComplete ==
    op = "status" =>
        /\ [k \in DOMAIN out |-> out[k].name]
              = SubSeq(DeclaredNames, 1, Len(out))
        /\ Count(log, "status") = Len(out)
        /\ pc = "status_containers" => Len(out) = idx - 1
        /\ pc = "done" => Len(out) = Len(CONTAINERS)

\* A status() that has completed while one declared container exists and
\* another does not.
C6_Witness ==
    /\ op = "status"
    /\ pc = "done"
    /\ \E n \in Names : conts[n] = Absent
    /\ \E n \in Names : conts[n] # Absent

Healthy(rec) == "status_color" \in DOMAIN rec /\ rec.status_color = "green"

\* C7: a status record is green iff the container of its name exists and
\* the refresh of this status() observed 'running'; the record of an
\* existing container carries the refreshed status and the short id; the
\* record of a name without container carries the name alone, no refresh
\* was issued for it and status() fails only on a call that raised APIError.
C7_StatusRecord ==
    op = "status" =>
        /\ \A k \in DOMAIN out :
              LET rec == out[k]
                  n == rec.name
              IN /\ Healthy(rec) <=> \E j \in DOMAIN log :
                                        log[j] = Reload(n, "running")
                 /\ "status_color" \in DOMAIN rec => Healthy(rec)
                 /\ conts[n] # Absent =>
                       /\ DOMAIN rec \ {"status_color"}
                             = {"name", "status", "id"}
                       /\ rec.status = conts[n]
                       /\ rec.id = ShortId(n)
                       /\ \E j \in DOMAIN log : log[j] = Reload(n, rec.status)
                 /\ conts[n] = Absent =>
                       /\ DOMAIN rec = {"name"}
                       /\ \A j \in DOMAIN log :
                             ~(log[j].k = "reload" /\ log[j].a = n)
        /\ pc = "failed" =>
              /\ Len(log) >= 2
              /\ log[Len(log) - 1].r = "apierror"

\* A status() that has completed with a green record and the record of a
\* name without container.
C7_Witness ==
    /\ op = "status"
    /\ pc = "done"
    /\ \E k \in DOMAIN out : Healthy(out[k])
    /\ \E k \in DOMAIN out : DOMAIN out[k] = {"name"}

\* C8: in stop() and status() a lookup that signals not-found is not
\* followed by the failure notification, and no create or pull is issued;
\* the invocation fails only on a call that raised APIError; when no
\* declared container exists, a completed stop() has issued nothing but the
\* lookups and no notification, and a completed status() has emitted the
\* bare name for every declared container; stop() touches only containers
\* that exist.
C8_AbsenceNotFailure ==
    op \in {"stop", "status"} =>
        /\ \A j \in DOMAIN log :
              IsCall(log[j]) => log[j].k \notin CreateKinds
        /\ \A j \in DOMAIN log :
              (log[j].r = "notfound" /\ j < Len(log)) =>
                  log[j + 1] # Disp("error_docker_api", "")
        /\ pc = "failed" => \E j \in DOMAIN log : log[j].r = "apierror"
        /\ (pc = "done" /\ \A n \in Names : rt0.conts[n] = Absent) =>
              /\ op = "stop" =>
                    log = [k \in DOMAIN CONTAINERS |->
                             Call("containers.get", DeclaredNames[k],
                                  "notfound")]
              /\ op = "status" =>
                    out = [k \in DOMAIN CONTAINERS |->
                             [name |-> DeclaredNames[k]]]
        /\ op = "stop" =>
              \A j \in DOMAIN log :
                  log[j].k \in {"reload", "stop", "step_close_status",
                                "step_stop_masternode_container"} =>
                      /\ containers # <<>>
                      /\ log[j].k # "step_close_status" =>
                            rt0.conts[log[j].a] # Absent
        /\ (op = "stop" /\ pc = "done") =>
              Count(log, "step_close_status")
                  = Cardinality({n \in Names : rt0.conts[n] # Absent})

\* A stop() that has completed while no declared container exists.
C8_Witness ==
    /\ op = "stop"
    /\ pc = "done"
    /\ \A n \in Names : rt0.conts[n] = Absent

\* The daemon state that the successful calls of a log produce from rt.
After(rt, l) ==
    LET ok(kind, a) == \E j \in DOMAIN l : l[j] = Call(kind, a, "ok")
        base(n) == IF ok("containers.create", n) THEN "created"
                   ELSE rt.conts[n]
    IN [vols |-> rt.vols \cup {v \in Range(VOLUMES) : ok("volumes.create", v)},
        nets |-> rt.nets
                   \cup {v \in Range(NETWORKS) : ok("networks.create", v)},
        conts |-> [n \in Names |->
                     IF ok("start", n) \/ ok("unpause", n) THEN "running"
                     ELSE IF ok("stop", n) THEN "exited"
                     ELSE base(n)]]

\* A call that raised APIError is followed by the failure notification and
\* by nothing else; there is one failure notification in a failed
\* invocation and none otherwise; the daemon state is what the successful
\* calls made it.
FailureGuardState ==
    /\ \A j \in DOMAIN log :
          log[j].r = "apierror" =>
              /\ j = Len(log) - 1
              /\ log[Len(log)] = Disp("error_docker_api", "")
              /\ pc = "failed"
    /\ Count(log, "error_docker_api") = (IF pc = "failed" THEN 1 ELSE 0)
    /\ pc = "failed" =>
          /\ Len(log) >= 2
          /\ IsCall(log[Len(log) - 1])
          /\ log[Len(log) - 1].r = "apierror"
    /\ Runtime = After(rt0, log)

\* The only step of a failed invocation is the next invocation, and it
\* leaves the daemon alone.
FailureGuardStep ==
    pc = "failed" => (runs' = runs + 1 /\ UNCHANGED rtvars)

\* C9: a call that raises APIError ends the invocation: one failure
\* notification, no further call to the daemon, and what the invocation had
\* created, started or stopped stays as it was.
C9_FailureGuard == [](FailureGuardState) /\ [][FailureGuardStep]_vars

\* A start() that failed after it had created a resource and started a
\* container.
C9_Witness ==
    /\ op = "start"
    /\ pc = "failed"
    /\ Created(log) # {}
    /\ \E j \in DOMAIN log : log[j].k = "start" /\ log[j].r = "ok"

\* The daemon state an uninterrupted start() ends with.
StartFinal(rt) ==
    [vols |-> rt.vols \cup Range(VOLUMES),
     nets |-> rt.nets \cup Range(NETWORKS),
     conts |-> [n \in Names |->
                  LET s == IF rt.conts[n] = Absent THEN "created"
                           ELSE rt.conts[n]
                  IN IF s \in {"created", "exited", "dead", "paused"}
                     THEN "running" ELSE s]]

\* C10: a start() that completes ends with the daemon state StartFinal of
\* the state it began with; when it follows a start() that failed, that is
\* also StartFinal of the state the failed start() began with, and it
\* creates none of the resources the failed start() had created.
C10_ReentryRecovery ==
    (op = "start" /\ pc = "done") =>
        /\ Runtime = StartFinal(rt0)
        /\ (prev.op = "start" /\ prev.end = "failed") =>
              /\ Runtime = StartFinal(prev.rt0)
              /\ Created(log) \cap prev.created = {}
              /\ \A j \in DOMAIN log :
                    log[j].k \in CreateKinds \ {"images.pull"} =>
                        <<log[j].k, log[j].a>> \notin prev.created

\* A start() that has completed after a start() that failed, each of them
\* having created something.
C10_Witness ==
    /\ op = "start"
    /\ pc = "done"
    /\ prev.op = "start"
    /\ prev.end = "failed"
    /\ prev.created # {}
    /\ Created(log) # {}
    /\ \E n \in Names : prev.rt0.conts[n] = "paused"

Notified(l) ==
    {<<l[j - 1].a, l[j].a>> :
        j \in {k \in DOMAIN l : /\ k > 1
                                 /\ l[k].t = "display"
                                 /\ l[k].k = "step_close_status"}}

\* The scenario of the specification: A is exited and B is paused.
ScenarioAB == [metrics |-> "exited", tomochain |-> "paused"]

\* C12: a start() that completed on A exited and B paused has started A,
\* unpaused B and notified running for both, and the stop() that completes
\* after it has stopped both and notified exited for both.  A start() that
\* completed has notified running or restarting for every container whose
\* refreshed status was a handled one; a stop() that completed has notified
\* neither running, restarting nor paused.
C12_StartThenStop ==
    /\ (op = "start" /\ pc = "done") =>
          /\ \A j \in DOMAIN log :
                (/\ IsFirstReload(log, j, "step_start_masternode_container")
                 /\ log[j].v \in Handled) =>
                    /\ \E s \in {"running", "restarting"} :
                          <<log[j].a, s>> \in Notified(log)
                    /\ \A e \in Notified(log) :
                          e[1] = log[j].a => e[2] \in {"running", "restarting"}
          /\ rt0.conts = ScenarioAB =>
                /\ Issued(log) = << <<"volumes.get", VOLUMES[1]>> >>
                     \o (IF VOLUMES[1] \in rt0.vols THEN <<>>
                         ELSE << <<"volumes.create", VOLUMES[1]>> >>)
                     \o << <<"networks.get", NETWORKS[1]>> >>
                     \o (IF NETWORKS[1] \in rt0.nets THEN <<>>
                         ELSE << <<"networks.create", NETWORKS[1]>> >>)
                     \o << <<"containers.get", "metrics">>,
                           <<"containers.get", "tomochain">>,
                           <<"reload", "metrics">>, <<"start", "metrics">>,
                           <<"reload", "metrics">>,
                           <<"reload", "tomochain">>,
                           <<"unpause", "tomochain">>,
                           <<"reload", "tomochain">> >>
                /\ Notified(log) = {<<"metrics", "running">>,
                                    <<"tomochain", "running">>}
    /\ (op = "stop" /\ pc = "done") =>
          /\ \A e \in Notified(log) :
                e[2] \notin {"running", "restarting", "paused"}
          /\ (prev.op = "start" /\ prev.end = "done"
                                /\ prev.rt0.conts = ScenarioAB) =>
                /\ Issued(log) = << <<"containers.get", "metrics">>,
                                    <<"containers.get", "tomochain">>,
                                    <<"reload", "metrics">>,
                                    <<"stop", "metrics">>,
                                    <<"reload", "metrics">>,
                                    <<"reload", "tomochain">>,
                                    <<"stop", "tomochain">>,
                                    <<"reload", "tomochain">> >>
                /\ Notified(log) = {<<"metrics", "exited">>,
                                    <<"tomochain", "exited">>}

\* The stop() of the scenario has completed after its start().
C12_Witness ==
    /\ op = "stop"
    /\ pc = "done"
    /\ prev.op = "start"
    /\ prev.end = "done"
    /\ prev.rt0.conts = ScenarioAB
    /\ conts = [n \in Names |-> "exited"]

\* The events that close a step: they carry no resource name and belong to
\* the resource of the event before them.
CloseKinds == {"step_close_exists", "step_close_created", "step_close_status"}

\* The event that tells the phase and the resource of the event at j.
Subject(l, j) == IF l[j].k \in CloseKinds /\ j > 1 THEN l[j - 1] ELSE l[j]

\* The phase of start() an event belongs to: volumes, networks, existence
\* of the containers, power state of the containers; 0 for the titles.
PhaseOf(e) ==
    IF e.k \in {"step_create_masternode_volume", "volumes.get",
                "volumes.create"} THEN 1
    ELSE IF e.k \in {"step_create_masternode_network", "networks.get",
                     "networks.create"} THEN 2
    ELSE IF e.k \in {"step_create_masternode_container", "containers.get",
                     "images.pull", "containers.create"} THEN 3
    ELSE IF e.k \in {"step_start_masternode_container", "reload", "start",
                     "unpause", "stop"} THEN 4
    ELSE 0

\* The place of a resource in the declaration of its kind; 0 if it has none.
DeclIndex(a) ==
    LET hit == {k \in DOMAIN VOLUMES : VOLUMES[k] = a}
               \cup {k \in DOMAIN NETWORKS : NETWORKS[k] = a}
               \cup {k \in DOMAIN CONTAINERS :
                        CONTAINERS[k].name = a \/ CONTAINERS[k].image = a}
    IN IF hit = {} THEN 0 ELSE CHOOSE k \in hit : TRUE

HasPhase(p) == p[1] # 0

\* <<phase, place in the declaration>> of the events of a log that belong to
\* a phase, in the order of the log.
Places(l) ==
    SelectSeq([j \in DOMAIN l |-> <<PhaseOf(Subject(l, j)),
                                    DeclIndex(Subject(l, j).a)>>], HasPhase)

\* C13: in start() the events of the volumes come before those of the
\* networks, those before the lookups, pulls and creates of the containers,
\* those before every refresh, start and unpause; inside a phase the events
\* of an earlier declared resource come before those of a later declared
\* one (the places never decrease along the log); while containers are
\* refreshed, started or unpaused, every declared volume, network and
\* container exists.
C13_PhaseOrder ==
    op = "start" =>
        /\ LET places == Places(log)
           IN /\ \A k \in DOMAIN places : places[k][2] # 0
              /\ \A k \in 1..(Len(places) - 1) :
                    \/ places[k][1] < places[k + 1][1]
                    \/ /\ places[k][1] = places[k + 1][1]
                       /\ places[k][2] <= places[k + 1][2]
        /\ pc \in {"start_reload", "start_action", "start_reload2"} =>
              /\ Range(VOLUMES) \subseteq vols
              /\ Range(NETWORKS) \subseteq nets
              /\ \A n \in Names : conts[n] # Absent
              /\ Range(containers) = Names

\* A start() that has completed after creating the volume, the network and
\* a container and starting both containers.
C13_Witness ==
    /\ op = "start"
    /\ pc = "done"
    /\ Cardinality(Created(log)) >= 3
    /\ \A n \in Names : \E j \in DOMAIN log : log[j] = Call("start", n, "ok")

\* The positions of the successful reloads of container n in a log.
ReloadsOf(l, n) ==
    {j \in DOMAIN l : l[j].k = "reload" /\ l[j].a = n /\ l[j].r = "ok"}

\* The positions of the status notifications of container n in a log.
NotificationsOf(l, n) ==
    {j \in DOMAIN l : /\ j > 1
                      /\ l[j].t = "display"
                      /\ l[j].k = "step_close_status"
                      /\ l[j - 1].a = n}

\* C14: in start() and stop() a container is refreshed at most twice, the
\* first time right after its step is announced; a status notification
\* directly follows the second refresh and carries the status that refresh
\* observed, which is the status the container then has; a pass that has
\* completed has refreshed every container of its mapping twice and
\* notified it once.
C14_PostActionStatus ==
    op \in {"start", "stop"} =>
        LET step == IF op = "start" THEN "step_start_masternode_container"
                    ELSE "step_stop_masternode_container"
        IN /\ \A n \in Names :
                 LET rs == ReloadsOf(log, n)
                     ns == NotificationsOf(log, n)
                 IN /\ Cardinality(rs) <= 2
                    /\ Cardinality(ns) <= 1
                    /\ \A j \in rs :
                          IF \A k \in rs : j <= k
                          THEN IsFirstReload(log, j, step)
                          ELSE /\ j < Len(log)
                               /\ log[j + 1]
                                     = Disp("step_close_status", log[j].v)
                               /\ log[j].v = conts[n]
                    /\ \A j \in ns :
                          /\ Cardinality(rs) = 2
                          /\ j - 1 \in rs
                          /\ log[j].a = log[j - 1].v
                    /\ (pc = "done" /\ n \in Range(containers)) =>
                          Cardinality(rs) = 2 /\ Cardinality(ns) = 1
                    /\ n \notin Range(containers) => rs = {} /\ ns = {}
           /\ Count(log, "step_close_status")
                 = Cardinality({n \in Names : NotificationsOf(log, n) # {}})

\* A start() that has completed after starting an exited container, whose
\* notification is running, and leaving a running one alone.
C14_Witness ==
    /\ op = "start"
    /\ pc = "done"
    /\ \E j \in DOMAIN log : log[j] = Reload("metrics", "exited")
    /\ <<"metrics", "running">> \in Notified(log)
    /\ rt0.conts["tomochain"] = "running"
    /\ <<"tomochain", "running">> \in Notified(log)

\* The iteration opened by the refresh at j goes on without an action: the
\* next event is the second refresh; when that one succeeds its status is
\* notified, and what follows is the step of another container or the end
\* of the pass.
PassesThrough(l, j, step, reloadPc) ==
    /\ j < Len(l) =>
          /\ l[j + 1].k = "reload"
          /\ l[j + 1].a = l[j].a
          /\ l[j + 1].r = "ok" =>
                /\ l[j + 2] = Disp("step_close_status", l[j + 1].v)
                /\ IF j + 2 < Len(l)
                   THEN /\ l[j + 3].t = "display"
                        /\ l[j + 3].k = step
                        /\ l[j + 3].a # l[j].a
                   ELSE pc \in {reloadPc, "done"}
          /\ l[j + 1].r # "ok" => pc = "failed"
    /\ j = Len(l) => pc \notin {"failed", "done"}

StartPowerPcs == {"start_reload", "start_action", "start_reload2"}

\* The existence phase of start() has handled every declared container.
ExistenceDone ==
    \/ pc \in StartPowerPcs
    \/ Count(log, "step_start_masternode_container") > 0
    \/ pc = "done"

\* C16: in start(), a declared container whose lookup finds it existed when
\* the operation began; its step is the lookup followed by 'exists' and
\* nothing else, no pull of its image and no create of it is ever issued,
\* the name is in the mapping, and until a power action is issued its
\* status is the one it had.  Once the existence phase is over the mapping
\* holds every declared name, in the order of the declaration.
C16_CreateOrReuse ==
    op = "start" =>
        /\ \A j \in DOMAIN log :
              log[j] = Call("containers.get", log[j].a, "ok") =>
                  LET n == log[j].a
                      stops == {"step_create_masternode_container", "newline",
                                "step_start_masternode_container"}
                  IN /\ rt0.conts[n] # Absent
                     /\ j > 1
                     /\ log[j - 1]
                           = Disp("step_create_masternode_container", n)
                     /\ Segment(log, j - 1, stops)
                           = <<log[j], Disp("step_close_exists", "")>>
                     /\ \A k \in DOMAIN log :
                           IsCall(log[k]) =>
                               /\ log[k] # Call("images.pull", ImageOf(n), "ok")
                               /\ ~ (log[k].k = "containers.create"
                                       /\ log[k].a = n)
                     /\ n \in Range(containers)
                     /\ (\A k \in DOMAIN log : log[k].k \notin PowerActions)
                           => conts[n] = rt0.conts[n]
        /\ ExistenceDone => containers = [k \in DOMAIN CONTAINERS |->
                                             CONTAINERS[k].name]

\* A start() that has completed after finding one container and creating
\* the other.
C16_Witness ==
    /\ op = "start"
    /\ pc = "done"
    /\ rt0.conts["metrics"] = "exited"
    /\ rt0.conts["tomochain"] = Absent
    /\ \E j \in DOMAIN log : log[j] = Call("containers.get", "metrics", "ok")
    /\ Range(containers) = Names

\* The calls status() may issue: lookups by name and refreshes.
ReadKinds == {"containers.get", "reload"}

\* C17: every daemon call of a status() is a container lookup or a refresh,
\* and the volumes, the networks and the status of every container are what
\* they were when the invocation began, at every point of it, whether it
\* completes or is aborted.
C17_StatusReadOnly ==
    op = "status" =>
        /\ \A j \in DOMAIN log : IsCall(log[j]) => log[j].k \in ReadKinds
        /\ Runtime = rt0

\* A status() aborted at the refresh of the second container after it has
\* reported the first one, which is running.
C17_Witness ==
    /\ op = "status"
    /\ pc = "failed"
    /\ Len(out) = 1
    /\ conts["metrics"] = "running"
    /\ \E j \in DOMAIN log : log[j] = Call("reload", "tomochain", "apierror")

\* Every kind of call the program issues to the daemon; none of them
\* deletes or removes.
CallKinds ==
    {"volumes.get", "volumes.create", "networks.get", "networks.create",
     "containers.get", "images.pull", "containers.create", "reload",
     "start", "unpause", "stop"}

\* The positions of the successful calls of a kind on a name.
Successes(l, kind, a) == {j \in DOMAIN l : l[j] = Call(kind, a, "ok")}

\* In every state the calls of the invocation are of the kinds above, and a
\* declared volume or network has been created at most once by this
\* invocation and the one before it together, and not at all when it
\* existed at the start of this one.
CreatedOnceState ==
    /\ \A j \in DOMAIN log : IsCall(log[j]) => log[j].k \in CallKinds
    /\ \A v \in Range(VOLUMES) :
          LET here == Cardinality(Successes(log, "volumes.create", v))
          IN /\ here <= 1
             /\ v \in rt0.vols => here = 0
             /\ <<"volumes.create", v>> \in prev.created => here = 0
             /\ here = 1 => v \in vols
    /\ \A n \in Range(NETWORKS) :
          LET here == Cardinality(Successes(log, "networks.create", n))
          IN /\ here <= 1
             /\ n \in rt0.nets => here = 0
             /\ <<"networks.create", n>> \in prev.created => here = 0
             /\ here = 1 => n \in nets

\* The events a step adds to the log of the running process.
NewEvents ==
    IF runs' = runs THEN SubSeq(log', Len(log) + 1, Len(log')) ELSE <<>>

\* In every step what exists goes on existing, and a volume or network
\* whose creation succeeds in the step did not exist before it.
CreatedOnceStep ==
    /\ vols \subseteq vols'
    /\ nets \subseteq nets'
    /\ \A n \in Names : conts[n] # Absent => conts'[n] # Absent
    /\ \A k \in DOMAIN NewEvents :
          LET e == NewEvents[k]
          IN /\ e = Call("volumes.create", e.a, "ok") =>
                   e.a \notin vols /\ e.a \in vols'
             /\ e = Call("networks.create", e.a, "ok") =>
                   e.a \notin nets /\ e.a \in nets'

\* C18: over any sequence of invocations, completed or aborted, no call of
\* a deleting kind is issued, whatever exists keeps existing, and a declared
\* volume or network is created only in a step before which it did not
\* exist: at most once.
C18_CreatedOnceNeverDeleted ==
    /\ [] CreatedOnceState
    /\ [][CreatedOnceStep]_vars

\* A start() that has completed after a start() that created the volume and
\* the network and was then aborted; both still exist.
C18_Witness ==
    /\ op = "start"
    /\ pc = "done"
    /\ prev.op = "start"
    /\ prev.end = "failed"
    /\ <<"volumes.create", VOLUMES[1]>> \in prev.created
    /\ <<"networks.create", NETWORKS[1]>> \in prev.created
    /\ VOLUMES[1] \in vols
    /\ NETWORKS[1] \in nets
    /\ Count(log, "step_close_exists") >= 2

\* The positions where the pass decides on an action.
ActionPcs == {"start_action", "stop_action"}

\* The action the tables of the specification choose for an intent and an
\* observed status: a sequence of at most one call.
ChosenFor(o, n, v) ==
    IF v \notin Handled THEN <<>>
    ELSE IF o = "start" THEN StartActionFor(n, v)
    ELSE StopActionFor(n, v)

\* The daemon rejects the action on container n as it is now.
Rejects(c, n) ==
    \/ conts[n] = Absent
    \/ Effect(c[1], conts[n]) = "error"

\* With another actor at work: the pass decides on the status of the
\* refresh it has just made, every action of the log is the one the table
\* gives for the status of the refresh before it, a call that raised is
\* followed by one failure notification and nothing else, and a process
\* that has not entered an operation holds no handle and no status.
StaleActionState ==
    /\ pc \in ActionPcs =>
          /\ log[Len(log)] = Reload(order[idx], hstatus[order[idx]])
          /\ IsFirstReload(log, Len(log),
                           IF op = "start"
                           THEN "step_start_masternode_container"
                           ELSE "step_stop_masternode_container")
    /\ \A j \in DOMAIN log :
          (IsCall(log[j]) /\ log[j].k \in PowerActions) =>
              /\ j > 1
              /\ log[j - 1].k = "reload"
              /\ log[j - 1].r = "ok"
              /\ log[j - 1].a = log[j].a
              /\ ChosenFor(op, log[j].a, log[j - 1].v)
                    = << <<log[j].k, log[j].a>> >>
    /\ \A j \in DOMAIN log :
          log[j].r = "apierror" =>
              /\ j = Len(log) - 1
              /\ log[Len(log)] = Disp("error_docker_api", "")
              /\ pc = "failed"
    /\ Count(log, "error_docker_api") = (IF pc = "failed" THEN 1 ELSE 0)
    /\ pc = "main" => containers = <<>> /\ hstatus = NoHandles /\ log = <<>>

\* A step of the program at a decision whose action the daemon rejects is
\* the failure of that action: the call, the failure notification, the end
\* of the operation, and nothing changed in the daemon.  The only step
\* after a failure is a new process, which starts without handles.
StaleActionStep ==
    /\ (pc \in ActionPcs /\ ext' = ext) =>
          LET n == order[idx]
              c == ChosenFor(op, n, hstatus[n])
          IN IF c = <<>>
             THEN log' = log /\ pc' \notin {"failed"} /\ UNCHANGED rtvars
             ELSE /\ Len(NewEvents) >= 1
                  /\ \E r \in {"ok", "apierror"} :
                        NewEvents[1] = Call(c[1][1], n, r)
                  /\ Rejects(c[1], n) =>
                        /\ pc' = "failed"
                        /\ log' = log \o <<Call(c[1][1], n, "apierror"),
                                            Disp("error_docker_api", "")>>
                        /\ UNCHANGED rtvars
    /\ pc = "failed" =>
          /\ runs' = runs + 1
          /\ UNCHANGED rtvars
          /\ containers' = <<>>
          /\ hstatus' = NoHandles

\* C19: when the status of a container changes between the refresh and the
\* action, the action issued is still the one chosen from the refreshed
\* status; if the daemon rejects it the operation ends there with one
\* failure notification, no further call and no change to the daemon, and
\* the next invocation starts from no handle and no remembered status.
C19_StaleActionFailsSafely ==
    /\ [] StaleActionState
    /\ [][StaleActionStep]_vars

\* A start() that saw a container exited, which another actor then paused:
\* the start was issued and rejected, and the operation was aborted.
C19_Witness ==
    /\ op = "start"
    /\ pc = "failed"
    /\ ext = 1
    /\ Len(log) > 3
    /\ log[Len(log) - 2] = Reload(log[Len(log) - 1].a, "exited")
    /\ log[Len(log) - 1] = Call("start", log[Len(log) - 1].a, "apierror")
    /\ conts[log[Len(log) - 1].a] = "paused"

\* connected is true exactly when a ping of this process has succeeded, and
\* a process that has made no connect() has no client and is not connected.
ConnectedState ==
    /\ connected <=> "true" \in pings
    /\ client = None => ~ connected /\ pings = {}

\* Within a process no step sets connected back to false, and the step
\* that sets it is a connect() whose ping succeeded; every connect()
\* replaces the client handle.  A new process starts unconnected.
ConnectedStep ==
    /\ runs' = runs =>
          /\ connected => connected'
          /\ (~ connected /\ connected') =>
                client' # client /\ lastping' = "true"
          /\ pings' # pings => client' # client
          /\ client' # client => pc = "main" /\ pings' = pings \cup {lastping'}
    /\ runs' # runs => ~ connected' /\ client' = None

\* C20: connected is false when the module is loaded, becomes true only in
\* a connect() whose ping succeeded and never becomes false again, so that
\* after any connect() calls it is true exactly when one of their pings
\* succeeded.
C20_ConnectedFlag ==
    /\ [] ConnectedState
    /\ [][ConnectedStep]_vars

\* After a connect() whose ping succeeded, a second connect() whose ping
\* returned False has replaced the client, and connected is still true.
C20_Witness ==
    /\ connected
    /\ client = 2
    /\ pings = {"true", "false"}
    /\ lastping = "false"

====
